---- MODULE Spec2Model ----
(***************************************************************************)
(* The measles forecast app (src/measles.py): a Streamlit script that is   *)
(* executed top to bottom on every interaction.  One execution loads the   *)
(* CDC table on the first run of a session, shows it in an editable grid,  *)
(* copies the grid into the session on a Save click, and then runs the     *)
(* forecasting pipeline on the session's working data: weekly aggregation, *)
(* zero-week gap filling from 2025-01-01, Prophet fit and prediction to    *)
(* 2025-12-31, the combined series with its cumulative sum, and the        *)
(* headline total.                                                         *)
(*                                                                         *)
(* Dates are day numbers, day 0 = Sunday 2024-12-29, so a date d is a      *)
(* Sunday exactly when d % 7 = 0.  A table is a sequence of rows           *)
(* [week_start, cases]; a weekly series is a sequence of [ds, y].          *)
(***************************************************************************)
EXTENDS Integers, Sequences, FiniteSets, TLC

VARIABLES csv, copy_on_write, session_state, edited_data, button, data,
          status, aggregated, weekly_cases, forecast, combined, final_total

vars == <<csv, copy_on_write, session_state, edited_data, button, data,
          status, aggregated, weekly_cases, forecast, combined, final_total>>

-----------------------------------------------------------------------------
(* Cell values *)

\* pandas' missing value (NaN, NaT, None)
NaN == -99999
\* a CSV cell whose text is neither a date nor a number
Unparseable == -88888

\* pd.Timestamp('2025-01-01'), a Wednesday
start_date == 3
\* pd.Timestamp('2025-12-31'), a Wednesday
future_end == 367
\* pd.Timedelta(weeks=1), and the period of freq='W-SUN'
Week == 7

-----------------------------------------------------------------------------
(* Bounds *)

\* rows in the CSV the session loads
MaxRows == 3
\* rows in the table the editor returns after the user's edits
MaxEditorRows == 2

Row(d, c) == [week_start |-> d, cases |-> c]

\* the rows a CSV may hold: dates before the anchor (2024-12-25), on a Sunday
\* (2025-02-02), on a Tuesday of the same week (2025-02-04), on the last
\* Sunday of 2025 (2025-12-28), missing and unparseable; counts positive,
\* negative, missing and unparseable
CsvRows ==
  { Row(-4, 1), Row(35, 2), Row(37, 1), Row(37, -1), Row(364, 1),
    Row(NaN, 1), Row(Unparseable, 1), Row(35, NaN), Row(37, Unparseable) }

\* the rows a user may leave in the editor (typed columns: no unparseable text)
EditorRows == { Row(35, 1), Row(37, NaN) }

\* the CSVs a session with edits starts from
SessionCsvs == { <<Row(35, 2)>>, <<Row(37, 1), Row(-4, 1)>>, <<>> }

\* the (intercept, slope) of the prediction line Prophet may return; it puts
\* no sign constraint on yhat
FitChoices == { [level |-> 1, slope |-> -1], [level |-> 0, slope |-> 1] }

TablesOver(rows, n) == UNION { [1..k -> rows] : k \in 0..n }

-----------------------------------------------------------------------------
(* Helpers *)

RECURSIVE SetToSortedSeq(_)
SetToSortedSeq(S) ==
  IF S = {} THEN <<>>
  ELSE LET m == CHOOSE x \in S : \A y \in S : x <= y
       IN  <<m>> \o SetToSortedSeq(S \ {m})

\* the permutations of 1..n
Perms(n) == { p \in [1..n -> 1..n] : \A i, j \in 1..n : i # j => p[i] # p[j] }

-----------------------------------------------------------------------------
(* load_data: the CDC table, cleaned and sorted *)

\* pd.to_datetime(df['week_start'], errors='coerce'): unparseable text -> NaT
to_datetime(v) == IF v = Unparseable THEN NaN ELSE v

\* pd.to_numeric(df['cases'], errors='coerce').fillna(0).astype(int):
\* unparseable text -> NaN -> 0
to_int(v) == IF v = Unparseable \/ v = NaN THEN 0 ELSE v

\* dropna that also takes unparseable text in 'cases' for a missing cell
dropna_unparseable(df) ==
  SelectSeq(df, LAMBDA r : /\ r.week_start # NaN
                           /\ r.cases # NaN /\ r.cases # Unparseable)

\* df.dropna(subset=['week_start', 'cases']): rows with a missing cell go;
\* unparseable text in 'cases' is not missing
dropna(df) == SelectSeq(df, LAMBDA r : r.week_start # NaN /\ r.cases # NaN)

\* df.sort_values("week_start").reset_index(drop=True): the default sort is
\* not stable, so rows of one date may come out in any order
sort_values(df) ==
  { s \in { [i \in DOMAIN df |-> df[p[i]]] : p \in Perms(Len(df)) } :
      \A i \in 1..(Len(s) - 1) : s[i].week_start <= s[i + 1].week_start }

\* the frames load_data may return for a file
load_data(file) ==
  LET dated   == [i \in DOMAIN file |->
                    Row(to_datetime(file[i].week_start), file[i].cases)]
      kept    == dropna(dated)
      numeric == [i \in DOMAIN kept |->
                    Row(kept[i].week_start, to_int(kept[i].cases))]
  IN  sort_values(numeric)

-----------------------------------------------------------------------------
(* The forecasting pipeline *)

RECURSIVE SumCases(_)
\* Series.sum() of the 'cases' of a group: missing values count as 0
SumCases(rows) ==
  IF rows = <<>> THEN 0
  ELSE (IF Head(rows).cases = NaN THEN 0 ELSE Head(rows).cases)
         + SumCases(Tail(rows))

\* groupby(...).first() in place of .sum(): a week keeps its first row's count
groupby_first(df) ==
  LET keys == SetToSortedSeq({ df[i].week_start : i \in DOMAIN df } \ {NaN})
  IN  [k \in DOMAIN keys |->
         [ds |-> keys[k],
          y  |-> SumCases(
                   <<Head(SelectSeq(df, LAMBDA r : r.week_start = keys[k]))>>)]]

\* data.groupby('week_start')['cases'].sum().reset_index(), renamed ds, y:
\* one row per distinct non-missing key, keys ascending
groupby_sum(df) ==
  LET keys == SetToSortedSeq({ df[i].week_start : i \in DOMAIN df } \ {NaN})
  IN  [k \in DOMAIN keys |->
         [ds |-> keys[k],
          y  |-> SumCases(SelectSeq(df, LAMBDA r : r.week_start = keys[k]))]]

\* a weekly range that starts on its start date, whatever its weekday
roll_none(d) == d

\* the first Sunday on or after d (how freq='W-SUN' anchors a range)
roll_to_sunday(d) == d + ((Week - (d % Week)) % Week)

\* pd.date_range(start, end, freq='W-SUN'): the Sundays in [start, end]
date_range(start, end) ==
  LET first == roll_to_sunday(start)
  IN  IF first > end THEN <<>>
      ELSE [k \in 1..((end - first) \div Week + 1) |-> first + Week * (k - 1)]

MinDs(s) == CHOOSE d \in { s[i].ds : i \in DOMAIN s } :
              \A i \in DOMAIN s : d <= s[i].ds
MaxDs(s) == CHOOSE d \in { s[i].ds : i \in DOMAIN s } :
              \A i \in DOMAIN s : d >= s[i].ds

\* sort_values(by='ds')
sort_by_ds(s) == SortSeq(s, LAMBDA a, b : a.ds < b.ds)

\* a range of zero weeks that ends on the first real week itself
missing_end_inclusive(first_ds) == first_ds

\* the last day the zero weeks may fall on: the day before the first real week
missing_end(first_ds) == first_ds - 1

\* lines 53-57: zero weeks from start_date up to the first real week
gap_fill(wc) ==
  IF wc # <<>> /\ MinDs(wc) > start_date
  THEN LET missing_dates == date_range(start_date, missing_end(MinDs(wc)))
           missing_data  == [k \in DOMAIN missing_dates |->
                               [ds |-> missing_dates[k], y |-> 0]]
       IN  sort_by_ds(missing_data \o wc)
  ELSE wc

\* a fit that accepts a history of one row
fit_raises_empty(wc) == Len(SelectSeq(wc, LAMBDA r : r.y # NaN)) < 1

\* model.fit(weekly_cases): Prophet raises ValueError when the history has
\* fewer than 2 non-NaN rows
fit_raises(wc) == Len(SelectSeq(wc, LAMBDA r : r.y # NaN)) < 2

\* future dates that start at the last historical week, not a week after it
future_from_last(wc) == date_range(MaxDs(wc), future_end)

\* lines 63-65
future_dates(wc) == date_range(MaxDs(wc) + Week, future_end)

\* model.predict(future): raises ValueError on a frame with no rows
predict_raises(future) == future = <<>>

\* model.predict(future)[['ds', 'yhat', ...]]: one row per future date
predict(future, fit) ==
  [k \in DOMAIN future |->
     [ds |-> future[k], yhat |-> fit.level + fit.slope * k, type |-> "Forecast"]]

\* lines 70-71
historical_of(wc) ==
  [i \in DOMAIN wc |-> [ds |-> wc[i].ds, yhat |-> wc[i].y, type |-> "Actual"]]

\* lines 73-74
concat_sorted(hist, fc) == sort_by_ds(hist \o fc)

\* a cumulative sum over every row, the anchor filter left out
in_all(r) == TRUE

\* the rows the cumulative sum runs over: combined['ds'] >= start_date
in_cumulative(r) == r.ds >= start_date

\* line 76 left out: an unselected row keeps its NaN
fill_none(cow) == NaN

\* what a row outside the cumulative sum holds after line 76: fillna(0,
\* inplace=True) on the selected column fills it, unless pandas runs with
\* copy-on-write, where the call works on a temporary and the NaN stays
fill_value(cow) == IF cow THEN NaN ELSE 0

\* the running sums of two adjacent stretches, joined
join_sums(left, right) ==
  left \o [k \in DOMAIN right |-> left[Len(left)] + right[k]]

RECURSIVE cumsum(_, _, _)
\* Series.cumsum() of xs[lo..hi], lo <= hi
cumsum(xs, lo, hi) ==
  IF lo = hi THEN <<xs[lo]>>
  ELSE join_sums(cumsum(xs, lo, (lo + hi) \div 2),
                 cumsum(xs, (lo + hi) \div 2 + 1, hi))

\* the column assigned by index: a selected row gets its running sum, the
\* others the fill value
assign_cumulative(comb, sums, cow) ==
  [i \in DOMAIN comb |->
     [ds |-> comb[i].ds, yhat |-> comb[i].yhat, type |-> comb[i].type,
      cumulative_yhat |->
        IF in_cumulative(comb[i]) THEN sums[i] ELSE fill_value(cow)]]

\* lines 75-76: combined.loc[combined['ds'] >= start_date, 'yhat'].cumsum()
\* assigned by index, then fillna(0, inplace=True); a row that is not
\* selected adds nothing to the running sum
with_cumulative(comb, cow) ==
  IF comb = <<>> THEN <<>>
  ELSE assign_cumulative(
         comb,
         cumsum([i \in DOMAIN comb |->
                   IF in_cumulative(comb[i]) THEN comb[i].yhat ELSE 0],
                1, Len(comb)),
         cow)

\* line 125: combined[combined['ds'] <= future_end]['cumulative_yhat'].iloc[-1]
headline(comb) ==
  LET upto == SelectSeq(comb, LAMBDA r : r.ds <= future_end)
  IN  upto[Len(upto)].cumulative_yhat

-----------------------------------------------------------------------------
(* The script *)

\* the pipeline fed from the editor's return value, saved or not
pipeline_input_edited(ss, edited) == edited

\* line 47: data = st.session_state.working_data
pipeline_input(ss, edited) == ss.working_data

\* an execution that stops at an uncaught exception of Prophet
Raised(st) ==
  /\ status' = st
  /\ forecast' = <<>>
  /\ combined' = <<>>
  /\ final_total' = NaN

\* lines 47-125: the rest of one execution once the session part has run
RunPipeline(ss, edited, fit) ==
  \E df \in {pipeline_input(ss, edited)} :
  \E agg \in {groupby_sum(df)} :
  \E wc \in {gap_fill(agg)} :
    /\ data' = df
    /\ aggregated' = agg
    /\ weekly_cases' = wc
    /\ IF fit_raises(wc) THEN Raised("fit_error")
       ELSE \E future \in {future_dates(wc)} :
            IF predict_raises(future) THEN Raised("predict_error")
            ELSE \E fc \in {predict(future, fit)} :
                 \E merged \in {concat_sorted(historical_of(wc), fc)} :
                 \E comb \in {with_cumulative(merged, copy_on_write)} :
                   /\ status' = "done"
                   /\ forecast' = fc
                   /\ combined' = comb
                   /\ final_total' = headline(comb)

Loaded == "original_data" \in DOMAIN session_state

\* lines 23-25 on the first execution of a session
first_session(df) == [original_data |-> df, working_data |-> df]

\* line 43: st.session_state.working_data = edited_data.copy()
save_edits(ss, edited) == [ss EXCEPT !.working_data = edited]

\* the first execution of a session: load, show the unedited table, forecast
FirstRun ==
  /\ ~Loaded
  /\ \E df \in load_data(csv), fit \in FitChoices :
       /\ session_state' = first_session(df)
       /\ edited_data' = df
       /\ button' = FALSE
       /\ RunPipeline(first_session(df), df, fit)
  /\ UNCHANGED <<csv, copy_on_write>>

\* the tables st.data_editor may return on a later execution: the table it
\* returned last time, or any table the user's edits (cell changes, added and
\* deleted rows) and the widget's stored edit state lead to
editor_returns(last) ==
  {last} \cup TablesOver(EditorRows, MaxEditorRows)

\* a later execution with the Save button not pressed (an edit in the grid,
\* or any other rerun): the session is left as it is
EditRerun ==
  /\ Loaded
  /\ \E t \in editor_returns(edited_data), fit \in FitChoices :
       /\ edited_data' = t
       /\ button' = FALSE
       /\ session_state' = session_state
       /\ RunPipeline(session_state, t, fit)
  /\ UNCHANGED <<csv, copy_on_write>>

\* a later execution with the Save button pressed: the editor's table is
\* copied into the session before the pipeline reads it
SaveRerun ==
  /\ Loaded
  /\ \E t \in editor_returns(edited_data), fit \in FitChoices :
       /\ edited_data' = t
       /\ button' = TRUE
       /\ session_state' = save_edits(session_state, t)
       /\ RunPipeline(save_edits(session_state, t), t, fit)
  /\ UNCHANGED <<csv, copy_on_write>>

Fresh ==
  /\ copy_on_write \in BOOLEAN
  /\ session_state = <<>>
  /\ edited_data = <<>>
  /\ button = FALSE
  /\ data = <<>>
  /\ status = "not_run"
  /\ aggregated = <<>>
  /\ weekly_cases = <<>>
  /\ forecast = <<>>
  /\ combined = <<>>
  /\ final_total = NaN

\* a session over a small table, with edits and saves
Init == csv \in SessionCsvs /\ Fresh

Next == FirstRun \/ EditRerun \/ SaveRerun

Spec == Init /\ [][Next]_vars

\* the first execution of a session over every CSV of up to MaxRows rows
InitLoad == csv \in TablesOver(CsvRows, MaxRows) /\ Fresh

NextLoad == FirstRun

SpecLoad == InitLoad /\ [][NextLoad]_vars

-----------------------------------------------------------------------------
(* Vocabulary of the properties *)

Ran  == status # "not_run"
Done == status = "done"

\* the Sunday that begins the calendar week of day d
WeekOf(d) == d - (d % Week)

\* the rows of the pipeline input that carry a date, and their dates
DatedRows == SelectSeq(data, LAMBDA r : r.week_start # NaN)
DataDates == { DatedRows[i].week_start : i \in DOMAIN DatedRows }

Points(s) == { <<s[i].ds, s[i].y>> : i \in DOMAIN s }
DsOf(s)   == { s[i].ds : i \in DOMAIN s }

StrictlyIncreasing(s) == \A i \in 1..(Len(s) - 1) : s[i].ds < s[i + 1].ds

RECURSIVE RangeSum(_, _, _)
\* xs[lo] + ... + xs[hi]
RangeSum(xs, lo, hi) ==
  IF lo > hi THEN 0
  ELSE IF lo = hi THEN xs[lo]
  ELSE RangeSum(xs, lo, (lo + hi) \div 2) + RangeSum(xs, (lo + hi) \div 2 + 1, hi)

Sundays(from, to) == { d \in from..to : d % Week = 0 }
EveryWeekFrom(from, to) == { d \in from..to : (d - from) % Week = 0 }

-----------------------------------------------------------------------------
(* C1 *)

\* C1 as stated: observations whose dates all fall in one calendar week, on
\* whatever days of it, aggregate to exactly one weekly point holding their
\* total count.
C1_OneWeekOnePoint ==
  (Ran /\ DataDates # {} /\ \A d, e \in DataDates : WeekOf(d) = WeekOf(e))
    => /\ Len(aggregated) = 1
       /\ aggregated[1].y = SumCases(DatedRows)

\* C1 amended: observations that all carry the same date aggregate to exactly
\* one point, at that date, holding their total count; the grouping key is
\* the date itself, never its week, so there is one point per distinct date;
\* no observation gives the empty series.
C1_OneDateOnePoint ==
  Ran => /\ (DataDates = {} => aggregated = <<>>)
         /\ DsOf(aggregated) = DataDates
         /\ Len(aggregated) = Cardinality(DataDates)
         /\ \A d \in DataDates :
              DataDates = {d} =>
                /\ Len(aggregated) = 1
                /\ aggregated[1].ds = d
                /\ aggregated[1].y = SumCases(DatedRows)

C1_Witness ==
  /\ Ran
  /\ Len(DatedRows) >= 2
  /\ Cardinality(DataDates) = 1
  /\ Len(aggregated) = 1
  /\ aggregated[1].y = SumCases(DatedRows)
  /\ aggregated[1].y > 2

-----------------------------------------------------------------------------
(* C2 *)

GapFilled == Ran /\ aggregated # <<>> /\ MinDs(aggregated) > start_date

\* C2 as stated: when the first real week E is after the anchor A, the output
\* is the input plus one zero point at each of A, A+7, A+14, ... before E.
C2_ZeroWeeksFromAnchor ==
  GapFilled =>
    LET zeros == EveryWeekFrom(start_date, MinDs(aggregated) - 1)
    IN  /\ Points(weekly_cases) = Points(aggregated) \cup { <<d, 0>> : d \in zeros }
        /\ Len(weekly_cases) = Len(aggregated) + Cardinality(zeros)

\* C2 amended: when the first real week E is after the anchor A = 2025-01-01,
\* the output is the input, every point kept with its value, plus exactly one
\* zero point at each Sunday S with A <= S < E; the first zero week is the
\* first Sunday on or after A (2025-01-05), not A itself.
C2_ZeroWeeksOnSundays ==
  GapFilled =>
    LET zeros == Sundays(start_date, MinDs(aggregated) - 1)
    IN  /\ Points(weekly_cases) = Points(aggregated) \cup { <<d, 0>> : d \in zeros }
        /\ Len(weekly_cases) = Len(aggregated) + Cardinality(zeros)

\* first real week 2025-02-02: the four zero weeks 01-05, 01-12, 01-19, 01-26
C2_Witness ==
  /\ GapFilled
  /\ MinDs(aggregated) = 35
  /\ Len(weekly_cases) = Len(aggregated) + 4
  /\ weekly_cases[1] = [ds |-> 7, y |-> 0]

-----------------------------------------------------------------------------
(* C3 *)

\* C3 as stated: a combined point before the anchor has no cumulative value
\* (never a number such as 0); a point on or after the anchor has one.
C3_AbsentBeforeAnchor ==
  Done => \A i \in DOMAIN combined :
            (combined[i].ds < start_date) <=> (combined[i].cumulative_yhat = NaN)

\* C3 amended: a combined point before the anchor holds the fill value of
\* line 76, the number 0 (it stays absent only under pandas copy-on-write,
\* where the chained in-place fillna does nothing); a point on or after the
\* anchor always holds a number, the running sum.
C3_FilledBeforeAnchor ==
  Done => \A i \in DOMAIN combined :
            /\ combined[i].ds < start_date =>
                 combined[i].cumulative_yhat = (IF copy_on_write THEN NaN ELSE 0)
            /\ combined[i].ds >= start_date =>
                 combined[i].cumulative_yhat # NaN

C3_Witness ==
  /\ Done
  /\ ~copy_on_write
  /\ \E i \in DOMAIN combined :
       /\ combined[i].ds < start_date
       /\ combined[i].yhat # 0
       /\ combined[i].cumulative_yhat = 0

-----------------------------------------------------------------------------
(* C4 *)

\* C4 as stated: with L the last historical week, the forecast holds exactly
\* one point at each of L+7, L+14, ... up to the horizon, and none elsewhere.
C4_EveryWeekAfterLast ==
  Done =>
    LET weeks == EveryWeekFrom(MaxDs(weekly_cases) + Week, future_end)
    IN  /\ DsOf(forecast) = weeks
        /\ Len(forecast) = Cardinality(weeks)

\* C4 amended: the forecast holds exactly one point at each Sunday S with
\* L+7 <= S <= horizon, and none elsewhere; every forecast week is at least a
\* week after every historical week, and the first one is exactly L+7 when L
\* is a Sunday.
C4_SundaysAfterLast ==
  Done =>
    LET L     == MaxDs(weekly_cases)
        weeks == Sundays(L + Week, future_end)
    IN  /\ DsOf(forecast) = weeks
        /\ Len(forecast) = Cardinality(weeks)
        /\ StrictlyIncreasing(forecast)
        /\ \A i \in DOMAIN forecast : \A j \in DOMAIN weekly_cases :
             forecast[i].ds >= weekly_cases[j].ds + Week
        /\ (L % Week = 0 => forecast[1].ds = L + Week)

\* last historical week on Tuesday 2025-02-04: the forecast starts on Sunday
\* 2025-02-16, not on 2025-02-11
C4_Witness ==
  /\ Done
  /\ MaxDs(weekly_cases) = 37
  /\ forecast[1].ds = 49
  /\ forecast[Len(forecast)].ds = 364

-----------------------------------------------------------------------------
(* C5 *)

WellFormedDate(v)  == v # NaN /\ v # Unparseable
WellFormedCount(v) == v # NaN /\ v # Unparseable

\* the rows of the CSV that load_data keeps for date d, unparseable counts as 0
KeptAt(d) ==
  LET rows == SelectSeq(csv, LAMBDA r : r.week_start = d /\ r.cases # NaN)
  IN  [i \in DOMAIN rows |->
         Row(d, IF rows[i].cases = Unparseable THEN 0 ELSE rows[i].cases)]

\* C5 as stated: a record with a missing or unparseable date or count is
\* dropped, so every weekly point comes from a well-formed record and sums
\* the well-formed records of its date only.
C5_MalformedDropped ==
  Ran => \A i \in DOMAIN aggregated :
           \E j \in DOMAIN csv :
             /\ csv[j].week_start = aggregated[i].ds
             /\ WellFormedDate(csv[j].week_start)
             /\ WellFormedCount(csv[j].cases)

\* C5 amended: load_data drops a record with a missing or
\* unparseable date or a missing count, and keeps a record whose count is
\* unparseable text with the count 0, so that record does give its date a
\* weekly point and adds 0 to its sum.
C5_UnparseableCountKept ==
  Ran =>
       /\ DsOf(aggregated) =
            { csv[j].week_start : j \in
                { k \in DOMAIN csv : /\ WellFormedDate(csv[k].week_start)
                                     /\ csv[k].cases # NaN } }
       /\ \A i \in DOMAIN aggregated :
            aggregated[i].y = SumCases(KeptAt(aggregated[i].ds))

C5_Witness ==
  /\ Ran
  /\ \E j \in DOMAIN csv : ~WellFormedDate(csv[j].week_start)
  /\ \E j \in DOMAIN csv : csv[j].cases = NaN
  /\ \A j \in DOMAIN csv : csv[j].week_start = 37 => csv[j].cases = Unparseable
  /\ \E i \in DOMAIN aggregated : aggregated[i] = [ds |-> 37, y |-> 0]

-----------------------------------------------------------------------------
(* C6 *)

NothingForecast == forecast = <<>> /\ combined = <<>> /\ final_total = NaN

-----------------------------------------------------------------------------
(* C7 *)

InYear(r) == r.ds >= start_date /\ r.ds <= future_end

\* C7: the headline total is the cumulative value of the last combined point
\* between the anchor and the horizon, which is the sum of the values of all
\* combined points, actual and forecast, between the anchor and the horizon.
C7_HeadlineIsYearSum ==
  Done =>
    LET year == SelectSeq(combined, InYear)
        vals == [i \in DOMAIN year |-> year[i].yhat]
    IN  /\ year # <<>>
        /\ final_total = year[Len(year)].cumulative_yhat
        /\ final_total = RangeSum(vals, 1, Len(vals))

\* a series with a nonzero point before the anchor, left out of the total
C7_Witness ==
  /\ Done
  /\ \E i \in DOMAIN combined : combined[i].ds < start_date /\ combined[i].yhat # 0
  /\ \E i \in DOMAIN combined : combined[i].type = "Actual" /\ InYear(combined[i])
                                  /\ combined[i].yhat # 0
  /\ final_total > 0

-----------------------------------------------------------------------------
(* C8 *)

\* C8: from the anchor on, the cumulative value never decreases along the
\* combined series.
C8_CumulativeMonotone ==
  Done => \A i, j \in DOMAIN combined :
            (combined[i].ds >= start_date /\ combined[i].ds < combined[j].ds)
              => combined[i].cumulative_yhat <= combined[j].cumulative_yhat

-----------------------------------------------------------------------------
(* C9 *)

\* C9: the aggregated series and the gap-filled series both have strictly
\* increasing week starts, so no week twice and no zero week at or after a
\* real one.
C9_StrictlyIncreasing ==
  Ran => /\ StrictlyIncreasing(aggregated)
         /\ StrictlyIncreasing(weekly_cases)
         /\ \A i \in DOMAIN weekly_cases :
              (weekly_cases[i].ds \notin DsOf(aggregated))
                => weekly_cases[i].ds < MinDs(aggregated)

C9_Witness ==
  /\ Ran
  /\ Len(aggregated) >= 2
  /\ Len(weekly_cases) > Len(aggregated)
  /\ MinDs(aggregated) % Week = 0

-----------------------------------------------------------------------------
(* C10 *)

\* C10: across the executions of a session the pipeline input is the loaded
\* table until the first Save, then the table the editor held at the latest
\* Save click;
\* an execution without a Save click keeps the input whatever the editor
\* holds, and original_data never changes once loaded.
C10_SessionFrame ==
  [][ /\ (~Loaded => (Loaded' /\ data' = session_state'.original_data))
      /\ (Loaded =>
            /\ Loaded'
            /\ session_state'.original_data = session_state.original_data
            /\ data' = (IF button' THEN edited_data' ELSE data)) ]_vars

\* after a Save and a later edit: the input is neither the loaded table nor
\* what the editor now holds
C10_Witness ==
  /\ Loaded
  /\ ~button
  /\ data # session_state.original_data
  /\ data # edited_data
  /\ data = session_state.working_data

====
